---- MODULE Spec2Model ----
(***************************************************************************)
(* A model of vertext.h (kevinmkchin/vertext): the font atlas builder      *)
(* vtxt_init_font, the process-wide cursor / configuration state, the      *)
(* quad assembler __private_vtxt_append_glyph, the text run composers and  *)
(* the fixed-capacity buffer store.                                        *)
(*                                                                         *)
(* C floats are modelled as exact rationals <<n, d>> (d > 0, reduced), so  *)
(* floating rounding is not part of the model; (int) casts truncate        *)
(* towards zero as in C.                                                   *)
(***************************************************************************)
EXTENDS Integers, Sequences, FiniteSets, TLC

----------------------------------------------------------------------------
(* Build-time configuration and program constants.                         *)

\* #define VTXT_MAX_CHAR_IN_BUFFER X (default 800); a small value here.
VTXT_MAX_CHAR_IN_BUFFER == 3
\* #define VTXT_ASCII_FROM / VTXT_ASCII_TO (defaults ' ' and '~'); a window
\* of three glyphs here.
VTXT_ASCII_FROM == 65
VTXT_ASCII_TO == 67
VTXT_GLYPH_COUNT == VTXT_ASCII_TO - VTXT_ASCII_FROM + 1

VTXT_MAX_FONT_RESOLUTION == 100
VTXT_DESIRED_ATLAS_WIDTH == 400
VTXT_ATLAS_PAD_X == 1
VTXT_ATLAS_PAD_Y == 1

\* enum _vtxt_config_flags_t
VTXT_CREATE_INDEX_BUFFER == 1
VTXT_USE_CLIPSPACE_COORDS == 2
VTXT_NEWLINE_ABOVE == 4
VTXT_FLIP_Y == 8

\* lengths of the two static arrays
VertexBufferLen == VTXT_MAX_CHAR_IN_BUFFER * 6 * 4
IndexBufferLen == VTXT_MAX_CHAR_IN_BUFFER * 6

\* config & flag  (flag is a single bit, config in 0..15)
HasFlag(cfg, flag) == (cfg \div flag) % 2 = 1

----------------------------------------------------------------------------
(* float arithmetic, as exact rationals <<numerator, denominator>>.        *)

Abs(n) == IF n < 0 THEN -n ELSE n

RECURSIVE GCD(_, _)
GCD(a, b) == IF b = 0 THEN a ELSE GCD(b, a % b)

\* the float with value n / d  (d # 0)
Rat(n, d) ==
    LET s == IF d < 0 THEN -1 ELSE 1
        g == GCD(Abs(n), Abs(d))
    IN  IF n = 0 THEN <<0, 1>> ELSE <<(s * n) \div g, (s * d) \div g>>

\* (float) i
RInt(i) == <<i, 1>>
RAdd(a, b) == Rat(a[1] * b[2] + b[1] * a[2], a[2] * b[2])
RNeg(a) == <<-a[1], a[2]>>
RSub(a, b) == RAdd(a, RNeg(b))
RMul(a, b) == Rat(a[1] * b[1], a[2] * b[2])
\* a / b  (b # 0)
RDiv(a, b) == Rat(a[1] * b[2], a[2] * b[1])
RLess(a, b) == a[1] * b[2] < b[1] * a[2]
RLeq(a, b) == a[1] * b[2] <= b[1] * a[2]
\* (int) f : truncation towards zero
RTrunc(a) == IF a[1] >= 0 THEN a[1] \div a[2] ELSE -((-a[1]) \div a[2])

\* _vtxt_ceil((float) a / (float) b) for ints a >= 0, b > 0
CeilDiv(a, b) == IF a % b = 0 THEN a \div b ELSE (a \div b) + 1

\* a C char: 8 bits, signed; the value of an int converted to char
Char8(n) == ((n + 128) % 256) - 128

----------------------------------------------------------------------------
(* State.                                                                  *)

VARIABLES
    \* the font-metrics provider (stb_truetype): what it answers for the
    \* font file and requested pixel height handed to vtxt_init_font
    provider,
    \* the vtxt_font handle
    font,
    \* the locals of vtxt_init_font and its position
    builder,
    \* the buffer store and the cursor / configuration state
    vertex_buffer, vertex_count, index_buffer, index_count,
    config, linegap_offset, cursor_x, cursor_y, screen_w, screen_h,
    \* the writes that fell outside the array they were aimed at
    stray,
    \* the vtxt_vertex_buffer last returned by vtxt_grab_buffer
    retval,
    \* the last API call, with the counts, flags and cursor it started from,
    \* and the number of API calls made so far
    last, calls,
    \* the frame of a vtxt_get_text_bounding_box_info call: where it is, its
    \* arguments, locals and results
    measure,
    \* the frame of the pre-scan copy of an aligned composer
    scan

fontvars == <<provider, font, builder>>
storevars == <<vertex_buffer, vertex_count, index_buffer, index_count, stray>>
configvars == <<config, linegap_offset, screen_w, screen_h>>
cursorvars == <<cursor_x, cursor_y>>
vars == <<provider, font, builder, vertex_buffer, vertex_count, index_buffer,
          index_count, config, linegap_offset, cursor_x, cursor_y, screen_w,
          screen_h, stray, retval, last, calls, measure, scan>>

GlyphSlots == 0 .. (VTXT_GLYPH_COUNT - 1)
FontChars == VTXT_ASCII_FROM .. VTXT_ASCII_TO

----------------------------------------------------------------------------
(* vtxt_init_font                                                          *)

\* a vtxt_glyph with every field zero
ZeroGlyph ==
    [codepoint |-> 0, width |-> RInt(0), height |-> RInt(0),
     advance |-> RInt(0), offset_x |-> RInt(0), offset_y |-> RInt(0),
     min_u |-> RInt(0), min_v |-> RInt(0), max_u |-> RInt(0),
     max_v |-> RInt(0)]

\* a vtxt_font before vtxt_init_font: a handle with static storage duration
ZeroFont ==
    [font_height_px |-> 0, ascender |-> RInt(0), descender |-> RInt(0),
     linegap |-> RInt(0), font_atlas |-> [width |-> 0, height |-> 0],
     glyphs |-> [i \in GlyphSlots |-> ZeroGlyph]]

\* the locals of vtxt_init_font on entry
BuilderStart ==
    [pc |-> "start", char_index |-> 0,
     temp_glyph_bitmaps |-> [i \in GlyphSlots |-> [width |-> 0, height |-> 0]],
     tallest_glyph_height |-> 0, aggregate_glyph_width |-> 0,
     atlas |-> [width |-> 0, height |-> 0],
     atlas_x |-> 0, atlas_y |-> 0, i |-> 0,
     \* where each glyph bitmap was blitted (top-left corner in the atlas)
     blit |-> [i \in GlyphSlots |-> <<0, 0>>],
     \* glyph-slot indices written outside temp_glyph_bitmaps / glyphs
     slot_oob |-> {},
     \* lines 280-286: the window the build was compiled with, and the
     \* number of iterations the loading loop has made
     ascii_from |-> VTXT_ASCII_FROM, ascii_to |-> VTXT_ASCII_TO,
     iterations |-> 0]

\* (float) a / (float) b for ints: b = 0 gives an infinity or a NaN,
\* written <<1, 0>>, <<-1, 0>> and <<0, 0>>
FDiv(a, b) ==
    IF b = 0 THEN <<(IF a > 0 THEN 1 ELSE IF a < 0 THEN -1 ELSE 0), 0>>
    ELSE Rat(a, b)

IsFinite(a) == a[2] # 0

\* what the provider answers for codepoint c
StbGlyph(p, c) ==
    IF c \in DOMAIN p.glyphs THEN p.glyphs[c]
    ELSE [advance |-> RInt(0), width |-> 0, height |-> 0,
          offset_x |-> 0, offset_y |-> 0]

\* lines 486-512 with the guard of line 491 rejecting the maximum as well
InitFontStartStep_RejectsMaximum(p, f, b) ==
    IF p.font_height_in_pixels >= VTXT_MAX_FONT_RESOLUTION
    THEN [font |-> f, builder |-> [b EXCEPT !.pc = "returned"]]
    ELSE [font |-> [f EXCEPT !.font_height_px = p.font_height_in_pixels,
                             !.ascender = p.ascender,
                             !.descender = p.descender,
                             !.linegap = p.linegap],
          builder |-> [b EXCEPT !.pc = "load",
                                !.char_index = Char8(b.ascii_from),
                                !.tallest_glyph_height = 0,
                                !.aggregate_glyph_width = 0]]

\* lines 489-508: the resolution guard and the font metrics
InitFontStartStep(p, f, b) ==
    IF p.font_height_in_pixels > VTXT_MAX_FONT_RESOLUTION
    THEN [font |-> f, builder |-> [b EXCEPT !.pc = "returned"]]
    ELSE [font |-> [f EXCEPT !.font_height_px = p.font_height_in_pixels,
                             !.ascender = p.ascender,
                             !.descender = p.descender,
                             !.linegap = p.linegap],
          builder |-> [b EXCEPT !.pc = "load",
                                !.char_index = Char8(b.ascii_from),
                                !.tallest_glyph_height = 0,
                                !.aggregate_glyph_width = 0]]

\* the loop test of line 514
LoadLoopTest(b) == b.char_index <= b.ascii_to

\* lines 516-561: one iteration of the glyph-loading loop, and ++char_index
LoadGlyphStep(p, f, b) ==
    LET c == b.char_index
        g == StbGlyph(p, c)
        glyph == [ZeroGlyph EXCEPT !.codepoint = c,
                                   !.advance = g.advance,
                                   !.width = RInt(g.width),
                                   !.height = RInt(g.height),
                                   !.offset_x = RInt(g.offset_x),
                                   !.offset_y = RInt(g.offset_y)]
        iter == c - b.ascii_from
        inside == iter \in GlyphSlots
    IN  [font |-> IF inside THEN [f EXCEPT !.glyphs[iter] = glyph] ELSE f,
         builder |->
            [b EXCEPT
                !.temp_glyph_bitmaps =
                    IF inside
                    THEN [@ EXCEPT ![iter] = [width |-> g.width, height |-> g.height]]
                    ELSE @,
                !.slot_oob = IF inside THEN @ ELSE @ \cup {iter},
                !.aggregate_glyph_width = @ + g.width + VTXT_ATLAS_PAD_X,
                !.tallest_glyph_height = IF @ < g.height THEN g.height ELSE @,
                !.char_index = Char8(c + 1),
                !.iterations = @ + 1]]

\* lines 564-565
DesiredAtlasHeight(tallest_glyph_height, aggregate_glyph_width) ==
    (tallest_glyph_height + VTXT_ATLAS_PAD_Y)
        * CeilDiv(aggregate_glyph_width, VTXT_DESIRED_ATLAS_WIDTH)

\* lines 564-574: the atlas is allocated and the packing cursor reset
AllocAtlasStep(p, f, b) ==
    [font |-> f,
     builder |->
        [b EXCEPT !.pc = "pack",
                  !.atlas = [width |-> VTXT_DESIRED_ATLAS_WIDTH,
                             height |-> DesiredAtlasHeight(b.tallest_glyph_height,
                                                           b.aggregate_glyph_width)],
                  !.atlas_x = 0, !.atlas_y = 0, !.i = 0]]

\* line 578: must the packing cursor move to the next row
WrapsRow(atlas_x, glyph_width, atlas_width) == atlas_x + glyph_width > atlas_width

\* the packing loop with rows as tall as the glyph that opens them
PackGlyphStep_RowOfOwnHeight(p, f, b) ==
    LET bm == b.temp_glyph_bitmaps[b.i]
        wrap == WrapsRow(b.atlas_x, bm.width, b.atlas.width)
        x == IF wrap THEN 0 ELSE b.atlas_x
        y == IF wrap THEN b.atlas_y + bm.height + VTXT_ATLAS_PAD_Y
             ELSE b.atlas_y
    IN  [font |->
            [f EXCEPT !.glyphs[b.i] =
                [@ EXCEPT !.min_u = FDiv(x, b.atlas.width),
                          !.min_v = FDiv(y, b.atlas.height),
                          !.max_u = FDiv(x + bm.width, b.atlas.width),
                          !.max_v = FDiv(y + bm.height, b.atlas.height)]],
         builder |->
            [b EXCEPT !.blit[b.i] = <<x, y>>,
                      !.atlas_x = x + bm.width + VTXT_ATLAS_PAD_X,
                      !.atlas_y = y,
                      !.i = @ + 1]]

\* lines 577-599: one iteration of the packing loop
PackGlyphStep(p, f, b) ==
    LET bm == b.temp_glyph_bitmaps[b.i]
        wrap == WrapsRow(b.atlas_x, bm.width, b.atlas.width)
        x == IF wrap THEN 0 ELSE b.atlas_x
        y == IF wrap THEN b.atlas_y + b.tallest_glyph_height + VTXT_ATLAS_PAD_Y
             ELSE b.atlas_y
    IN  [font |->
            [f EXCEPT !.glyphs[b.i] =
                [@ EXCEPT !.min_u = FDiv(x, b.atlas.width),
                          !.min_v = FDiv(y, b.atlas.height),
                          !.max_u = FDiv(x + bm.width, b.atlas.width),
                          !.max_v = FDiv(y + bm.height, b.atlas.height)]],
         builder |->
            [b EXCEPT !.blit[b.i] = <<x, y>>,
                      !.atlas_x = x + bm.width + VTXT_ATLAS_PAD_X,
                      !.atlas_y = y,
                      !.i = @ + 1]]

\* line 601
FinishFontStep(p, f, b) ==
    [font |-> [f EXCEPT !.font_atlas = b.atlas],
     builder |-> [b EXCEPT !.pc = "done"]]

\* the step vtxt_init_font takes next
InitFontStep(p, f, b) ==
    CASE b.pc = "start" -> InitFontStartStep(p, f, b)
      [] b.pc = "load" /\ LoadLoopTest(b) -> LoadGlyphStep(p, f, b)
      [] b.pc = "load" /\ ~LoadLoopTest(b) -> AllocAtlasStep(p, f, b)
      [] b.pc = "pack" /\ b.i < VTXT_GLYPH_COUNT -> PackGlyphStep(p, f, b)
      [] b.pc = "pack" /\ ~(b.i < VTXT_GLYPH_COUNT) -> FinishFontStep(p, f, b)
      [] OTHER -> [font |-> f, builder |-> b]

\* vtxt_init_font run to its return (at most n steps)
RECURSIVE RunInitFont(_, _, _, _)
RunInitFont(p, f, b, n) ==
    IF n = 0 \/ b.pc \in {"done", "returned"} THEN [font |-> f, builder |-> b]
    ELSE LET s == InitFontStep(p, f, b)
         IN  RunInitFont(p, s.font, s.builder, n - 1)

----------------------------------------------------------------------------
(* The buffer store, cursor and configuration: the operations as functions *)
(* of the state they read, returning the state they leave.                 *)
(*                                                                         *)
(* A store is the record                                                   *)
(*   [vb, vc, ib, ic]  _vtxt_vertex_buffer/_count, _vtxt_index_buffer/_count *)
(*   [cx, cy]          _vtxt_cursor_x / _vtxt_cursor_y                     *)
(*   [stray]           the writes that fell outside an array, as           *)
(*                     <<array, position>>; such a write is undefined      *)
(*                     behaviour, the model records it and leaves the      *)
(*                     arrays as they are                                  *)
(* An environment is the record [config, linegap_offset, screen_w,         *)
(* screen_h, font] the operations only read.                               *)

NEWLINE == 10
\* the length of line_buffer in the two aligning composers
LINE_BUFFER_LEN == 256

\* buf[base + k - 1] = vals[k] for every k, inside an array of length len
RECURSIVE WriteAll(_, _, _, _)
WriteAll(buf, len, base, vals) ==
    IF vals = <<>> THEN buf
    ELSE LET rest == WriteAll(buf, len, base + 1, Tail(vals))
         IN  IF base \in 0 .. (len - 1) THEN [rest EXCEPT ![base] = Head(vals)]
             ELSE rest

\* the positions base .. base + n - 1 that are outside an array of length len
StrayWrites(array, len, base, n) ==
    {<<array, q>> : q \in {k \in base .. (base + n - 1) : k \notin 0 .. (len - 1)}}

\* BufferFull with the look-ahead of one glyph forgotten
BufferFull_NoLookahead(vc) == VTXT_MAX_CHAR_IN_BUFFER * 6 < vc

\* lines 644 and 649: the two guards of __private_vtxt_append_glyph
GlyphOutOfRange(in_glyph) == in_glyph < VTXT_ASCII_FROM \/ in_glyph > VTXT_ASCII_TO
BufferFull(vc) == VTXT_MAX_CHAR_IN_BUFFER * 6 < vc + 6

\* line 678 with the y axis kept as on the screen
ClipSpaceY_NotInverted(y, H) ==
    RSub(RMul(RDiv(y, RInt(H)), RInt(2)), RInt(1))

\* lines 677-680: a screen coordinate in clip space
ClipSpaceY(y, H) ==
    RSub(RInt(1), RMul(RDiv(y, RInt(H)), RInt(2)))
ClipSpaceX(x, W) ==
    RSub(RMul(RDiv(x, RInt(W)), RInt(2)), RInt(1))

\* lines 654-681: the corners of the quad
QuadOf(S, E, in_glyph, text_height_px, x_offset_from_cursor) ==
    LET scale == FDiv(text_height_px, E.font.font_height_px)
        g == E.font.glyphs[in_glyph - VTXT_ASCII_FROM]
        advance == RMul(g.advance, scale)
        width == RMul(g.width, scale)
        height == RMul(g.height, scale)
        offset_x == RMul(g.offset_x, scale)
        offset_y == RMul(g.offset_y, scale)
        cx == RInt(S.cx)
        cy == RInt(S.cy)
        flip == HasFlag(E.config, VTXT_FLIP_Y)
        clip == HasFlag(E.config, VTXT_USE_CLIPSPACE_COORDS)
        top0 == IF flip THEN RSub(cy, offset_y) ELSE RAdd(cy, offset_y)
        bot0 == IF flip THEN RSub(RSub(cy, offset_y), height)
                ELSE RAdd(RAdd(cy, offset_y), height)
        left0 == RAdd(RAdd(cx, offset_x), x_offset_from_cursor)
        right0 == RAdd(RAdd(RAdd(cx, offset_x), width), x_offset_from_cursor)
        ClipY(y) == ClipSpaceY(y, E.screen_h)
        ClipX(x) == ClipSpaceX(x, E.screen_w)
    IN  [top |-> IF clip THEN ClipY(top0) ELSE top0,
         bot |-> IF clip THEN ClipY(bot0) ELSE bot0,
         left |-> IF clip THEN ClipX(left0) ELSE left0,
         right |-> IF clip THEN ClipX(right0) ELSE right0,
         min_u |-> g.min_u, min_v |-> g.min_v,
         max_u |-> g.max_u, max_v |-> g.max_v,
         advance |-> advance]

\* lines 685-703: the 4 vertices of indexed mode, as 16 floats
IndexedVertices(q) ==
    << q.left, q.bot, q.min_u, q.min_v,
       q.left, q.top, q.min_u, q.max_v,
       q.right, q.top, q.max_u, q.max_v,
       q.right, q.bot, q.max_u, q.min_v >>

\* the 6 indices of a glyph, the number of its first vertex forgotten
QuadIndices_FromZero(vc) == << 0, 2, 1, 0, 3, 2 >>

\* lines 705-710: the 6 indices written for a glyph whose first vertex is vc
QuadIndices(vc) == << vc + 0, vc + 2, vc + 1, vc + 0, vc + 3, vc + 2 >>

\* the 6 vertices of non-indexed mode with the second triangle wound the
\* other way round
PlainVertices_SecondTriangleReversed(q) ==
    << q.left, q.bot, q.min_u, q.min_v,
       q.right, q.top, q.max_u, q.max_v,
       q.left, q.top, q.min_u, q.max_v,
       q.right, q.bot, q.max_u, q.min_v,
       q.left, q.bot, q.min_u, q.min_v,
       q.right, q.top, q.max_u, q.max_v >>

\* lines 717-745: the 6 vertices of non-indexed mode, as 24 floats
PlainVertices(q) ==
    << q.left, q.bot, q.min_u, q.min_v,
       q.right, q.top, q.max_u, q.max_v,
       q.left, q.top, q.min_u, q.max_v,
       q.right, q.bot, q.max_u, q.min_v,
       q.right, q.top, q.max_u, q.max_v,
       q.left, q.bot, q.min_u, q.min_v >>

\* StoreQuad advancing vertex_count by 6 in indexed mode too
StoreQuad_IndexedBySix(S, E, q) ==
    IF HasFlag(E.config, VTXT_CREATE_INDEX_BUFFER)
    THEN [S EXCEPT
            !.vb = WriteAll(@, VertexBufferLen, S.vc * 4, IndexedVertices(q)),
            !.ib = WriteAll(@, IndexBufferLen, S.ic, QuadIndices(S.vc)),
            !.stray = @ \cup StrayWrites("vertex", VertexBufferLen, S.vc * 4, 16)
                        \cup StrayWrites("index", IndexBufferLen, S.ic, 6),
            !.vc = @ + 6,
            !.ic = @ + 6]
    ELSE [S EXCEPT
            !.vb = WriteAll(@, VertexBufferLen, S.vc * 4, PlainVertices(q)),
            !.stray = @ \cup StrayWrites("vertex", VertexBufferLen, S.vc * 4, 24),
            !.vc = @ + 6]

\* lines 683-748: the quad is stored and the counts advance
StoreQuad(S, E, q) ==
    LET STRIDE == 4
    IN  IF HasFlag(E.config, VTXT_CREATE_INDEX_BUFFER)
        THEN [S EXCEPT
                !.vb = WriteAll(@, VertexBufferLen, S.vc * STRIDE, IndexedVertices(q)),
                !.ib = WriteAll(@, IndexBufferLen, S.ic, QuadIndices(S.vc)),
                !.stray = @ \cup StrayWrites("vertex", VertexBufferLen, S.vc * STRIDE, 16)
                            \cup StrayWrites("index", IndexBufferLen, S.ic, 6),
                !.vc = @ + 4,
                !.ic = @ + 6]
        ELSE [S EXCEPT
                !.vb = WriteAll(@, VertexBufferLen, S.vc * STRIDE, PlainVertices(q)),
                !.stray = @ \cup StrayWrites("vertex", VertexBufferLen, S.vc * STRIDE, 24),
                !.vc = @ + 6]

\* line 751: the cursor advances by the truncated scaled advance
AdvanceCursor(S, q) == [S EXCEPT !.cx = @ + RTrunc(q.advance)]

\* PrivateAppendGlyph moving the cursor for a glyph the full buffer drops
PrivateAppendGlyph_DropAdvances(S, E, in_glyph, text_height_px, x_offset_from_cursor) ==
    IF GlyphOutOfRange(in_glyph) THEN S
    ELSE LET q == QuadOf(S, E, in_glyph, text_height_px, x_offset_from_cursor)
         IN  IF BufferFull(S.vc) THEN AdvanceCursor(S, q)
             ELSE AdvanceCursor(StoreQuad(S, E, q), q)

\* lines 641-752
PrivateAppendGlyph(S, E, in_glyph, text_height_px, x_offset_from_cursor) ==
    IF GlyphOutOfRange(in_glyph) THEN S
    ELSE IF BufferFull(S.vc) THEN S
    ELSE LET q == QuadOf(S, E, in_glyph, text_height_px, x_offset_from_cursor)
         IN  AdvanceCursor(StoreQuad(S, E, q), q)

\* lines 754-758
AppendGlyph(S, E, in_glyph, text_height_px) ==
    PrivateAppendGlyph(S, E, in_glyph, text_height_px, RInt(0))

\* lines 614-615 and 621: the truncated line step
LineStep(E, text_height_px) ==
    LET scale == FDiv(text_height_px, E.font.font_height_px)
        linegap == RAdd(E.font.linegap, E.linegap_offset)
    IN  RTrunc(RMul(RAdd(RAdd(RNeg(E.font.descender), linegap), E.font.ascender),
                    scale))

\* NewLine moving up under VTXT_NEWLINE_ABOVE whatever VTXT_FLIP_Y says
NewLine_AboveIgnoresFlip(S, E, x, text_height_px) ==
    LET step == LineStep(E, text_height_px)
        above == HasFlag(E.config, VTXT_NEWLINE_ABOVE)
        flip == HasFlag(E.config, VTXT_FLIP_Y)
    IN  [S EXCEPT !.cx = x,
                  !.cy = IF above
                         THEN @ - step
                         ELSE (IF flip THEN @ - step ELSE @ + step)]

\* lines 611-639
NewLine(S, E, x, text_height_px) ==
    LET step == LineStep(E, text_height_px)
        above == HasFlag(E.config, VTXT_NEWLINE_ABOVE)
        flip == HasFlag(E.config, VTXT_FLIP_Y)
    IN  [S EXCEPT !.cx = x,
                  !.cy = IF above
                         THEN (IF flip THEN @ + step ELSE @ - step)
                         ELSE (IF flip THEN @ - step ELSE @ + step)]

\* the loop of vtxt_append_line starting a new line where the cursor is
RECURSIVE AppendLineFrom_NewLineAtCursor(_, _, _, _, _, _)
AppendLineFrom_NewLineAtCursor(S, E, text, k, line_start_x, text_height_px) ==
    IF k > Len(text) THEN S
    ELSE IF text[k] # NEWLINE
         THEN IF BufferFull(S.vc) THEN S
              ELSE AppendLineFrom_NewLineAtCursor(
                       AppendGlyph(S, E, text[k], text_height_px),
                       E, text, k + 1, line_start_x, text_height_px)
         ELSE AppendLineFrom_NewLineAtCursor(
                  NewLine(S, E, S.cx, text_height_px),
                  E, text, k + 1, line_start_x, text_height_px)

\* the loop of vtxt_append_line passing over a character that finds the
\* store full, instead of leaving the loop
RECURSIVE AppendLineFrom_SkipsWhenFull(_, _, _, _, _, _)
AppendLineFrom_SkipsWhenFull(S, E, text, k, line_start_x, text_height_px) ==
    IF k > Len(text) THEN S
    ELSE IF text[k] # NEWLINE
         THEN IF BufferFull(S.vc)
              THEN AppendLineFrom_SkipsWhenFull(S, E, text, k + 1, line_start_x,
                                                text_height_px)
              ELSE AppendLineFrom_SkipsWhenFull(
                       AppendGlyph(S, E, text[k], text_height_px),
                       E, text, k + 1, line_start_x, text_height_px)
         ELSE AppendLineFrom_SkipsWhenFull(
                  NewLine(S, E, line_start_x, text_height_px),
                  E, text, k + 1, line_start_x, text_height_px)

\* lines 764-779: the loop of vtxt_append_line from character k on
RECURSIVE AppendLineFrom(_, _, _, _, _, _)
AppendLineFrom(S, E, text, k, line_start_x, text_height_px) ==
    IF k > Len(text) THEN S
    ELSE IF text[k] # NEWLINE
         THEN IF BufferFull(S.vc) THEN S
              ELSE AppendLineFrom(AppendGlyph(S, E, text[k], text_height_px),
                                  E, text, k + 1, line_start_x, text_height_px)
         ELSE AppendLineFrom(NewLine(S, E, line_start_x, text_height_px),
                             E, text, k + 1, line_start_x, text_height_px)

\* lines 760-780
AppendLine(S, E, text, text_height_px) ==
    AppendLineFrom(S, E, text, 1, S.cx, text_height_px)

\* the first position j >= k of text holding a newline, or Len(text) + 1
RECURSIVE LineEnd(_, _)
LineEnd(text, k) ==
    IF k > Len(text) \/ text[k] = NEWLINE THEN k ELSE LineEnd(text, k + 1)

\* lines 786-791 / 827-832: the line is copied into line_buffer, unchecked
CopyLine(S, text, k) ==
    [S EXCEPT !.stray = @ \cup StrayWrites("line_buffer", LINE_BUFFER_LEN, 0,
                                           LineEnd(text, k) - k)]

\* lines 797-798 / 838-839: the scaled advance read from the glyph table,
\* unchecked; junk is what lies at a slot outside the table
PrescanAdvance(E, in_glyph, text_height_px, junk) ==
    LET scale == FDiv(text_height_px, E.font.font_height_px)
        slot == in_glyph - VTXT_ASCII_FROM
    IN  RMul(IF slot \in GlyphSlots THEN E.font.glyphs[slot].advance ELSE junk,
             scale)

\* lines 792-800 / 833-841: line_length, summed over characters k .. e - 1
RECURSIVE LineLength(_, _, _, _, _, _)
LineLength(E, text, k, e, text_height_px, junk) ==
    IF k >= e THEN RInt(0)
    ELSE RAdd(PrescanAdvance(E, text[k], text_height_px, junk),
              LineLength(E, text, k + 1, e, text_height_px, junk))

\* lines 801-809 / 843-851: the glyphs of characters k .. e - 1 are appended
\* with a constant offset, until the buffer is full
RECURSIVE AppendRun(_, _, _, _, _, _, _)
AppendRun(S, E, text, k, e, text_height_px, x_offset) ==
    IF k >= e THEN S
    ELSE IF BufferFull(S.vc) THEN S
    ELSE AppendRun(PrivateAppendGlyph(S, E, text[k], text_height_px, x_offset),
                   E, text, k + 1, e, text_height_px, x_offset)

\* line 797 / 838 over the whole call: the glyph-table slots the pre-scans
\* of the lines from character k on read
RECURSIVE PrescanSlots(_, _)
PrescanSlots(text, k) ==
    LET e == LineEnd(text, k)
        slots == {text[i] - VTXT_ASCII_FROM : i \in k .. (e - 1)}
    IN  IF e <= Len(text) THEN slots \cup PrescanSlots(text, e + 1)
        ELSE slots

\* line 808 and lines 842, 850: the offset given to every glyph of a line
RightOffset(line_length) == RNeg(line_length)
CenteredOffset(line_length) == RNeg(RDiv(line_length, RInt(2)))

\* the aligned composers measuring the rest of the text, not the line
RECURSIVE AppendAligned_MeasuresRestOfText(_, _, _, _, _, _, _)
AppendAligned_MeasuresRestOfText(S, E, text, k, text_height_px, mode, junk) ==
    LET line_start_x == S.cx
        e == LineEnd(text, k)
        line_length ==
            LineLength(E, text, k, Len(text) + 1, text_height_px, junk)
        x_offset == IF mode = "right" THEN RightOffset(line_length)
                    ELSE CenteredOffset(line_length)
        S1 == AppendRun(CopyLine(S, text, k), E, text, k, e, text_height_px, x_offset)
    IN  IF e <= Len(text)
        THEN AppendAligned_MeasuresRestOfText(
                 NewLine(S1, E, line_start_x, text_height_px),
                 E, text, e + 1, text_height_px, mode, junk)
        ELSE S1

\* lines 782-821 (mode "right") and 823-863 (mode "centered"), called with
\* the text from character k on
RECURSIVE AppendAligned(_, _, _, _, _, _, _)
AppendAligned(S, E, text, k, text_height_px, mode, junk) ==
    LET line_start_x == S.cx
        e == LineEnd(text, k)
        line_length == LineLength(E, text, k, e, text_height_px, junk)
        x_offset == IF mode = "right" THEN RightOffset(line_length)
                    ELSE CenteredOffset(line_length)
        S1 == AppendRun(CopyLine(S, text, k), E, text, k, e, text_height_px, x_offset)
    IN  IF e <= Len(text)
        THEN AppendAligned(NewLine(S1, E, line_start_x, text_height_px),
                           E, text, e + 1, text_height_px, mode, junk)
        ELSE S1

\* lines 782-821
AppendLineAlignRight(S, E, text, text_height_px, junk) ==
    AppendAligned(S, E, text, 1, text_height_px, "right", junk)

\* lines 823-863
AppendLineCentered(S, E, text, text_height_px, junk) ==
    AppendAligned(S, E, text, 1, text_height_px, "centered", junk)

\* ClearBuffer sending the cursor home as well
ClearBuffer_HomesCursor(S) == [S EXCEPT !.vc = 0, !.ic = 0, !.cx = 0, !.cy = 0]

\* ClearBuffer resetting the vertex count only
ClearBuffer_VerticesOnly(S) == [S EXCEPT !.vc = 0]

\* lines 938-945
ClearBuffer(S) == [S EXCEPT !.vc = 0, !.ic = 0]

\* TogglesIndexing noticing only that indexing is switched on
TogglesIndexing_OnlyOn(oldconfig, newconfig) ==
    ~HasFlag(oldconfig, VTXT_CREATE_INDEX_BUFFER)
        /\ HasFlag(newconfig, VTXT_CREATE_INDEX_BUFFER)

\* line 467: does the new flag word change the indexing bit
TogglesIndexing(oldconfig, newconfig) ==
    HasFlag(oldconfig, VTXT_CREATE_INDEX_BUFFER)
        # HasFlag(newconfig, VTXT_CREATE_INDEX_BUFFER)

\* lines 464-470: what vtxt_setflags does to the store
SetFlagsStore(S, oldconfig, newconfig) ==
    IF TogglesIndexing(oldconfig, newconfig) THEN ClearBuffer(S) ELSE S

\* GrabBuffer counting 4 floats per vertex in both modes
GrabBuffer_FourPerVertex(S, cfg) ==
    [vertex_count |-> S.vc,
     vertices_array_count |-> S.vc * 4,
     indices_array_count |-> IF HasFlag(cfg, VTXT_CREATE_INDEX_BUFFER) THEN S.ic ELSE 0,
     vertex_buffer |-> "_vtxt_vertex_buffer",
     index_buffer |-> IF HasFlag(cfg, VTXT_CREATE_INDEX_BUFFER)
                      THEN "_vtxt_index_buffer" ELSE "NULL"]

\* lines 917-936
GrabBuffer(S, cfg) ==
    IF HasFlag(cfg, VTXT_CREATE_INDEX_BUFFER)
    THEN [vertex_count |-> S.vc,
          vertices_array_count |-> S.vc * 4,
          indices_array_count |-> S.ic,
          vertex_buffer |-> "_vtxt_vertex_buffer",
          index_buffer |-> "_vtxt_index_buffer"]
    ELSE [vertex_count |-> S.vc,
          vertices_array_count |-> S.vc * 6,
          indices_array_count |-> 0,
          vertex_buffer |-> "_vtxt_vertex_buffer",
          index_buffer |-> "NULL"]

----------------------------------------------------------------------------
(* vtxt_get_text_bounding_box_info, one loop iteration at a time. A frame  *)
(* is the record                                                           *)
(*   [pc]                        "idle", "loop" (at the test of line 876)  *)
(*                               or "done" (returned)                      *)
(*   [text, k, text_height_px]   the string, the position of *text in it   *)
(*                               (Len(text) + 1 is the NUL) and the size   *)
(*   [wSumLargestSoFar, wSumCurrent, hSum]   the locals                    *)
(*   [width_out, height_out]     the results                               *)
(*   [iterations]                how often the loop body was entered       *)

MeasureIdle ==
    [pc |-> "idle", text |-> <<>>, k |-> 1, text_height_px |-> 0,
     wSumLargestSoFar |-> RInt(0), wSumCurrent |-> RInt(0), hSum |-> RInt(0),
     width_out |-> RInt(0), height_out |-> RInt(0), iterations |-> 0]

\* lines 865-874: the call and its locals
MeasureEnterStep(text, text_height_px) ==
    [MeasureIdle EXCEPT !.pc = "loop", !.text = text,
                        !.text_height_px = text_height_px]

\* *text, with the terminating NUL as 0
MeasureChar(m, k) == IF k <= Len(m.text) THEN m.text[k] ELSE 0

\* lines 880-883: the character is not of the window; continue, with text
\* where it was
MeasureSkipStep(m) == [m EXCEPT !.iterations = @ + 1]

\* lines 885-907: a character of the window
MeasureGlyphStep(m, E) ==
    LET isLastGlyphInLine ==
            MeasureChar(m, m.k + 1) = 0 \/ MeasureChar(m, m.k + 1) = NEWLINE
        scale == FDiv(m.text_height_px, E.font.font_height_px)
        glyph == E.font.glyphs[MeasureChar(m, m.k) - VTXT_ASCII_FROM]
        advance == RMul(glyph.advance, scale)
        width == RMul(glyph.width, scale)
        offset_x == RMul(glyph.offset_x, scale)
        wSumCurrent ==
            RAdd(m.wSumCurrent,
                 IF isLastGlyphInLine THEN RAdd(offset_x, width) ELSE advance)
        linegap == RAdd(E.font.linegap, E.linegap_offset)
        heightOfThisLine ==
            RMul(RAdd(RSub(E.font.ascender, E.font.descender), linegap), scale)
    IN  [m EXCEPT
            !.wSumCurrent = wSumCurrent,
            !.wSumLargestSoFar =
                IF isLastGlyphInLine /\ RLess(@, wSumCurrent)
                THEN wSumCurrent ELSE @,
            !.hSum = IF isLastGlyphInLine THEN RAdd(@, heightOfThisLine) ELSE @,
            !.k = @ + 1,
            !.iterations = @ + 1]

\* lines 878 and 910: a newline is stepped over
MeasureNewlineStep(m) == [m EXCEPT !.k = @ + 1, !.iterations = @ + 1]

\* lines 913-914
MeasureReturnStep(m) ==
    [m EXCEPT !.pc = "done", !.width_out = m.wSumLargestSoFar,
              !.height_out = m.hSum]

----------------------------------------------------------------------------
(* The pre-scan copy of vtxt_append_line_align_right (lines 785-791) and   *)
(* vtxt_append_line_centered (lines 826-832), one character at a time.     *)
(* A frame is the record                                                   *)
(*   [pc]        "idle", "copy" (at the loop test) or "copied"             *)
(*   [text, t]   the string and the position of *line_of_text in it        *)
(*   [lb_index]  the next position of line_buffer to be written            *)
(*   [written]   how many characters landed inside line_buffer             *)
(*   [oob]       the positions written that line_buffer does not have      *)

ScanIdle ==
    [pc |-> "idle", text |-> <<>>, t |-> 1, lb_index |-> 0, written |-> 0,
     oob |-> {}]

\* lines 785-787 / 826-828
ScanEnterStep(text) == [ScanIdle EXCEPT !.pc = "copy", !.text = text]

\* the loop test of line 788 / 829
ScanLoopTest(sc) == sc.t <= Len(sc.text) /\ sc.text[sc.t] # NEWLINE

\* line 790 / 831: line_buffer[lb_index++] = *line_of_text++
ScanCopyStep(sc) ==
    [sc EXCEPT !.written = IF sc.lb_index \in 0 .. (LINE_BUFFER_LEN - 1)
                           THEN @ + 1 ELSE @,
               !.oob = IF sc.lb_index \in 0 .. (LINE_BUFFER_LEN - 1)
                       THEN @ ELSE @ \cup {sc.lb_index},
               !.lb_index = @ + 1,
               !.t = @ + 1]

\* the loop is left at the NUL or the newline
ScanEndStep(sc) == [sc EXCEPT !.pc = "copied"]

----------------------------------------------------------------------------
(* Inputs.                                                                 *)

\* the number of API calls a behaviour makes
MaxCalls == 3

\* the font of the buffer-store specification: what the provider answers
\* for a font asked for at 10 pixels
SampleProvider ==
    [font_height_in_pixels |-> 10,
     ascender |-> RInt(8), descender |-> RInt(-2), linegap |-> RInt(1),
     glyphs |-> [c \in FontChars |->
                    [advance |-> Rat(11 + (c - VTXT_ASCII_FROM), 2),
                     width |-> 4 + (c - VTXT_ASCII_FROM),
                     height |-> 7,
                     offset_x |-> c - VTXT_ASCII_FROM,
                     offset_y |-> -7]]]

\* glyph bitmap sizes <<width, height>> the provider may answer; none is
\* wider than the atlas
GlyphSizes == {<<0, 0>>, <<134, 7>>, <<201, 10>>, <<400, 3>>}
FontHeights == {10, VTXT_MAX_FONT_RESOLUTION, VTXT_MAX_FONT_RESOLUTION + 1}

Providers ==
    {[font_height_in_pixels |-> h,
      ascender |-> RInt(8), descender |-> RInt(-2), linegap |-> RInt(1),
      glyphs |-> [c \in FontChars |->
                    [advance |-> RInt(sz[c][1] + 1), width |-> sz[c][1],
                     height |-> sz[c][2], offset_x |-> 0,
                     offset_y |-> -sz[c][2]]]] :
        h \in FontHeights, sz \in [FontChars -> GlyphSizes]}

\* the windows of the loading loop, the bitmap sizes and the providers of
\* a window, and the iterations a loop that does not end is followed for
MaxLoadIterations == 6
LoadWindows ==
    {<<VTXT_ASCII_FROM, VTXT_ASCII_TO>>,
     <<126 - VTXT_GLYPH_COUNT + 1, 126>>,
     <<127 - VTXT_GLYPH_COUNT + 1, 127>>}
LoadGlyphSizes == {<<0, 0>>, <<134, 7>>, <<201, 10>>}
LoadProviders(w) ==
    {[font_height_in_pixels |-> 10,
      ascender |-> RInt(8), descender |-> RInt(-2), linegap |-> RInt(1),
      glyphs |-> [c \in w[1] .. w[2] |->
                    [advance |-> RInt(sz[c][1] + 1), width |-> sz[c][1],
                     height |-> sz[c][2], offset_x |-> 0,
                     offset_y |-> -sz[c][2]]]] :
        sz \in [w[1] .. w[2] -> LoadGlyphSizes]}

\* characters: two of the font, one just above the window, one negative
ChA == VTXT_ASCII_FROM
ChB == VTXT_ASCII_FROM + 1
ChX == VTXT_ASCII_TO + 1
GlyphInputs == {ChA, ChX, -1}
\* a line of two glyphs; two lines with a character outside the window; a
\* line of more glyphs than the store has room for, followed by another;
\* two lines the store has room for
Texts ==
    {<<ChA, ChB>>,
     <<ChA, ChX, NEWLINE, ChB>>,
     <<ChA, ChB, ChA, ChB, ChA, NEWLINE, ChA>>,
     <<ChB, ChA, NEWLINE, ChA>>}
\* the lines whose pre-scan copy is followed step by step: one character
\* short of the line buffer of the aligned composers, as long as it, and
\* one character longer; alone or followed by a second line
ScanLine(n) == [k \in 1 .. n |-> ChA]
ScanTexts ==
    {ScanLine(n) \o tail :
        n \in (LINE_BUFFER_LEN - 1) .. (LINE_BUFFER_LEN + 1),
        tail \in {<<>>, <<NEWLINE, ChB>>}}
\* the strings measured: every string of at most MaxMeasureLen characters
\* over two glyphs, a character outside the window and the newline
MaxMeasureLen == 4
MeasureTexts ==
    UNION {[1 .. n -> {ChA, ChB, ChX, NEWLINE}] : n \in 0 .. MaxMeasureLen}
\* how often the model follows a loop body that did not move on
MaxIdleIterations == 2
\* the font is built at 10 pixels: text is drawn at scale 3/2
TextHeights == {15}
\* no flag, each flag alone, and three flags together
FlagWords == {0, VTXT_CREATE_INDEX_BUFFER, VTXT_USE_CLIPSPACE_COORDS,
              VTXT_NEWLINE_ABOVE, VTXT_FLIP_Y,
              VTXT_CREATE_INDEX_BUFFER + VTXT_NEWLINE_ABOVE + VTXT_FLIP_Y}
CursorInputs == {<<100, 100>>}
ScreenInputs == {<<400, 300>>}
LinegapInputs == {Rat(5, 2)}
\* what a read outside the glyph table may find as an advance
JunkAdvances == {RInt(0), RInt(9)}

----------------------------------------------------------------------------
(* The specifications share the variables: Spec drives the buffer store    *)
(* with a font already built, SpecFont steps through vtxt_init_font and    *)
(* SpecMeasure through one vtxt_get_text_bounding_box_info call and        *)
(* SpecScan through the pre-scan copy of an aligned composer.              *)

Store == [vb |-> vertex_buffer, vc |-> vertex_count, ib |-> index_buffer,
          ic |-> index_count, cx |-> cursor_x, cy |-> cursor_y,
          stray |-> stray]
Env == [config |-> config, linegap_offset |-> linegap_offset,
        screen_w |-> screen_w, screen_h |-> screen_h, font |-> font]

\* the store S becomes the state
Becomes(S) ==
    /\ vertex_buffer' = S.vb
    /\ vertex_count' = S.vc
    /\ index_buffer' = S.ib
    /\ index_count' = S.ic
    /\ cursor_x' = S.cx
    /\ cursor_y' = S.cy
    /\ stray' = S.stray

NoCall == [op |-> "none", glyph |-> 0, text |-> <<>>, height |-> 0,
           a |-> 0, b |-> 0, vc |-> 0, ic |-> 0, config |-> 0,
           cx |-> 0, cy |-> 0, reads |-> {}]

\* the call being made, with the counts, flags and cursor it starts from
Call(op, glyph, text, height, a, b) ==
    [op |-> op, glyph |-> glyph, text |-> text, height |-> height,
     a |-> a, b |-> b, vc |-> vertex_count, ic |-> index_count,
     config |-> config, cx |-> cursor_x, cy |-> cursor_y, reads |-> {}]

Calling(c) ==
    /\ calls < MaxCalls
    /\ calls' = calls + 1
    /\ last' = c

NoSnapshot == [vertex_count |-> 0, vertices_array_count |-> 0,
               indices_array_count |-> 0, vertex_buffer |-> "NULL",
               index_buffer |-> "NULL"]

\* lines 450-459: the statics as the program starts
StaticsInit ==
    /\ vertex_buffer = [k \in 0 .. (VertexBufferLen - 1) |-> RInt(0)]
    /\ vertex_count = 0
    /\ index_buffer = [k \in 0 .. (IndexBufferLen - 1) |-> 0]
    /\ index_count = 0
    /\ config = 0
    /\ linegap_offset = RInt(0)
    /\ cursor_x = 0
    /\ cursor_y = 100
    /\ screen_w = 800
    /\ screen_h = 600
    /\ stray = {}
    /\ retval = NoSnapshot
    /\ last = NoCall
    /\ calls = 0
    /\ measure = MeasureIdle
    /\ scan = ScanIdle

\* the program after vtxt_init_font(&font, bytes, 10) has returned
Init ==
    /\ StaticsInit
    /\ provider = SampleProvider
    /\ LET r == RunInitFont(SampleProvider, ZeroFont, BuilderStart,
                            2 * VTXT_GLYPH_COUNT + 4)
       IN  font = r.font /\ builder = r.builder

vtxt_setflags(newconfig) ==
    /\ Calling(Call("setflags", 0, <<>>, 0, newconfig, 0))
    /\ config' = newconfig
    /\ Becomes(SetFlagsStore(Store, config, newconfig))
    /\ UNCHANGED <<fontvars, measure, scan, linegap_offset, screen_w, screen_h, retval>>

vtxt_set_linegap_offset(offset) ==
    /\ Calling(Call("set_linegap_offset", 0, <<>>, 0, 0, 0))
    /\ linegap_offset' = offset
    /\ UNCHANGED <<fontvars, measure, scan, storevars, cursorvars, config, screen_w, screen_h,
                   retval>>

vtxt_backbuffersize(width, height) ==
    /\ Calling(Call("backbuffersize", 0, <<>>, 0, width, height))
    /\ screen_w' = width
    /\ screen_h' = height
    /\ UNCHANGED <<fontvars, measure, scan, storevars, cursorvars, config, linegap_offset, retval>>

vtxt_move_cursor(x, y) ==
    /\ Calling(Call("move_cursor", 0, <<>>, 0, x, y))
    /\ cursor_x' = x
    /\ cursor_y' = y
    /\ UNCHANGED <<fontvars, measure, scan, storevars, configvars, retval>>

vtxt_new_line(x, text_height_px) ==
    /\ Calling(Call("new_line", 0, <<>>, text_height_px, x, 0))
    /\ Becomes(NewLine(Store, Env, x, text_height_px))
    /\ UNCHANGED <<fontvars, measure, scan, configvars, retval>>

vtxt_append_glyph(in_glyph, text_height_px) ==
    /\ Calling(Call("append_glyph", in_glyph, <<>>, text_height_px, 0, 0))
    /\ Becomes(AppendGlyph(Store, Env, in_glyph, text_height_px))
    /\ UNCHANGED <<fontvars, measure, scan, configvars, retval>>

vtxt_append_line(line_of_text, text_height_px) ==
    /\ Calling(Call("append_line", 0, line_of_text, text_height_px, 0, 0))
    /\ Becomes(AppendLine(Store, Env, line_of_text, text_height_px))
    /\ UNCHANGED <<fontvars, measure, scan, configvars, retval>>

vtxt_append_line_align_right(line_of_text, text_height_px) ==
    /\ Calling([Call("append_line_align_right", 0, line_of_text,
                     text_height_px, 0, 0)
                    EXCEPT !.reads = PrescanSlots(line_of_text, 1)])
    /\ \E junk \in JunkAdvances :
          Becomes(AppendLineAlignRight(Store, Env, line_of_text, text_height_px, junk))
    /\ UNCHANGED <<fontvars, measure, scan, configvars, retval>>

vtxt_append_line_centered(line_of_text, text_height_px) ==
    /\ Calling([Call("append_line_centered", 0, line_of_text,
                     text_height_px, 0, 0)
                    EXCEPT !.reads = PrescanSlots(line_of_text, 1)])
    /\ \E junk \in JunkAdvances :
          Becomes(AppendLineCentered(Store, Env, line_of_text, text_height_px, junk))
    /\ UNCHANGED <<fontvars, measure, scan, configvars, retval>>

vtxt_grab_buffer ==
    /\ Calling(Call("grab_buffer", 0, <<>>, 0, 0, 0))
    /\ retval' = GrabBuffer(Store, config)
    /\ UNCHANGED <<fontvars, measure, scan, storevars, cursorvars, configvars>>

vtxt_clear_buffer ==
    /\ Calling(Call("clear_buffer", 0, <<>>, 0, 0, 0))
    /\ Becomes(ClearBuffer(Store))
    /\ UNCHANGED <<fontvars, measure, scan, configvars, retval>>

Next ==
    \/ \E f \in FlagWords : vtxt_setflags(f)
    \/ \E o \in LinegapInputs : vtxt_set_linegap_offset(o)
    \/ \E s \in ScreenInputs : vtxt_backbuffersize(s[1], s[2])
    \/ \E c \in CursorInputs : vtxt_move_cursor(c[1], c[2])
    \/ \E c \in CursorInputs, h \in TextHeights : vtxt_new_line(c[1], h)
    \/ \E g \in GlyphInputs, h \in TextHeights : vtxt_append_glyph(g, h)
    \/ \E t \in Texts, h \in TextHeights : vtxt_append_line(t, h)
    \/ \E t \in Texts, h \in TextHeights : vtxt_append_line_align_right(t, h)
    \/ \E t \in Texts, h \in TextHeights : vtxt_append_line_centered(t, h)
    \/ vtxt_grab_buffer
    \/ vtxt_clear_buffer

Spec == Init /\ [][Next]_vars

\* vtxt_init_font is entered with a zeroed handle
InitFont ==
    /\ StaticsInit
    /\ provider \in Providers
    /\ font = ZeroFont
    /\ builder = BuilderStart

BuilderTakes(step) ==
    /\ font' = step.font
    /\ builder' = step.builder
    /\ UNCHANGED <<provider, storevars, cursorvars, configvars, retval, last, calls,
                   measure, scan>>

InitFontStart ==
    /\ builder.pc = "start"
    /\ BuilderTakes(InitFontStartStep(provider, font, builder))

LoadGlyph ==
    /\ builder.pc = "load"
    /\ LoadLoopTest(builder)
    /\ BuilderTakes(LoadGlyphStep(provider, font, builder))

AllocAtlas ==
    /\ builder.pc = "load"
    /\ ~LoadLoopTest(builder)
    /\ BuilderTakes(AllocAtlasStep(provider, font, builder))

PackGlyph ==
    /\ builder.pc = "pack"
    /\ builder.i < VTXT_GLYPH_COUNT
    /\ BuilderTakes(PackGlyphStep(provider, font, builder))

FinishFont ==
    /\ builder.pc = "pack"
    /\ ~(builder.i < VTXT_GLYPH_COUNT)
    /\ BuilderTakes(FinishFontStep(provider, font, builder))

NextFont ==
    \/ InitFontStart
    \/ LoadGlyph
    \/ AllocAtlas
    \/ PackGlyph
    \/ FinishFont

SpecFont == InitFont /\ [][NextFont]_vars

\* the glyph-loading loop of vtxt_init_font in builds with other windows of
\* VTXT_GLYPH_COUNT characters: the one of this build, one ending at 126 and
\* one ending at 127, the largest value of the loop's char counter
InitLoad ==
    /\ StaticsInit
    /\ font = ZeroFont
    /\ \E w \in LoadWindows :
          /\ provider \in LoadProviders(w)
          /\ builder = [BuilderStart EXCEPT !.ascii_from = w[1],
                                            !.ascii_to = w[2]]

LoadIterate ==
    /\ builder.iterations < MaxLoadIterations
    /\ LoadGlyph

\* a write outside temp_glyph_bitmaps and font_handle->glyphs is undefined:
\* the loop may go on, or the process may be stopped
LoadFault ==
    /\ builder.pc = "load"
    /\ builder.slot_oob # {}
    /\ builder' = [builder EXCEPT !.pc = "fault"]
    /\ UNCHANGED <<provider, font, storevars, cursorvars, configvars, retval,
                   last, calls, measure, scan>>

NextLoad ==
    \/ InitFontStart
    \/ LoadIterate
    \/ LoadFault
    \/ AllocAtlas

SpecLoad == InitLoad /\ [][NextLoad]_vars

\* vtxt_get_text_bounding_box_info is called once, on a built font, before
\* or after the line gap offset was set
MeasureEnter(text, text_height_px) ==
    /\ measure.pc = "idle"
    /\ measure' = MeasureEnterStep(text, text_height_px)
    /\ UNCHANGED <<fontvars, storevars, cursorvars, configvars, retval, last,
                   calls, scan>>

MeasureTakes(m) ==
    /\ measure.pc = "loop"
    /\ measure' = m
    /\ UNCHANGED <<fontvars, storevars, cursorvars, configvars, retval, last,
                   calls, scan>>

MeasureReturn ==
    /\ MeasureChar(measure, measure.k) = 0
    /\ MeasureTakes(MeasureReturnStep(measure))

MeasureNewline ==
    /\ MeasureChar(measure, measure.k) = NEWLINE
    /\ MeasureTakes(MeasureNewlineStep(measure))

MeasureSkip ==
    /\ MeasureChar(measure, measure.k) \notin {0, NEWLINE}
    /\ GlyphOutOfRange(MeasureChar(measure, measure.k))
    /\ measure.iterations < Len(measure.text) + MaxIdleIterations
    /\ MeasureTakes(MeasureSkipStep(measure))

MeasureGlyph ==
    /\ MeasureChar(measure, measure.k) \notin {0, NEWLINE}
    /\ ~GlyphOutOfRange(MeasureChar(measure, measure.k))
    /\ MeasureTakes(MeasureGlyphStep(measure, Env))

NextMeasure ==
    \/ \E o \in LinegapInputs :
          measure.pc = "idle" /\ vtxt_set_linegap_offset(o)
    \/ \E t \in MeasureTexts, h \in TextHeights : MeasureEnter(t, h)
    \/ MeasureReturn
    \/ MeasureNewline
    \/ MeasureSkip
    \/ MeasureGlyph

SpecMeasure == Init /\ [][NextMeasure]_vars

\* an aligned composer is called and copies the first line of its text
ScanEnter(text) ==
    /\ scan.pc = "idle"
    /\ scan' = ScanEnterStep(text)
    /\ UNCHANGED <<fontvars, storevars, cursorvars, configvars, retval, last,
                   calls, measure>>

ScanTakes(sc) ==
    /\ scan.pc = "copy"
    /\ scan' = sc
    /\ UNCHANGED <<fontvars, storevars, cursorvars, configvars, retval, last,
                   calls, measure>>

ScanCopy ==
    /\ ScanLoopTest(scan)
    /\ ScanTakes(ScanCopyStep(scan))

ScanEnd ==
    /\ ~ScanLoopTest(scan)
    /\ ScanTakes(ScanEndStep(scan))

NextScan ==
    \/ \E t \in ScanTexts : ScanEnter(t)
    \/ ScanCopy
    \/ ScanEnd

SpecScan == Init /\ [][NextScan]_vars

----------------------------------------------------------------------------
(* Properties of the buffer store (checked under Spec).                    *)

Indexed == config % 2 = 1
InWindow(c) == VTXT_ASCII_FROM <= c /\ c <= VTXT_ASCII_TO
\* the number of glyph quads the store holds
GlyphQuads == IF Indexed THEN vertex_count \div 4 ELSE vertex_count \div 6

\* C1: in both modes the store never holds more than VTXT_MAX_CHAR_IN_BUFFER
\* glyph quads, index_count never exceeds the length of the index array and
\* no index write falls outside the index array.
C1_StoreWithinCapacity ==
    /\ GlyphQuads <= VTXT_MAX_CHAR_IN_BUFFER
    /\ index_count <= VTXT_MAX_CHAR_IN_BUFFER * 6
    /\ \A w \in stray : w[1] # "index"

\* C2: in every reachable state vertex_count <= VTXT_MAX_CHAR_IN_BUFFER * 6,
\* vertex_count * 4 is within the float capacity of the vertex array, and no
\* vertex write of an append has landed outside the array.
C2_VertexCountWithinArray ==
    /\ vertex_count <= VTXT_MAX_CHAR_IN_BUFFER * 6
    /\ vertex_count * 4 <= VTXT_MAX_CHAR_IN_BUFFER * 6 * 4
    /\ \A w \in stray : w[1] # "vertex"

\* a line of more glyphs than the capacity has filled the non-indexed store
C2_Witness ==
    /\ last.op = "append_line"
    /\ Len(last.text) > VTXT_MAX_CHAR_IN_BUFFER
    /\ ~Indexed
    /\ vertex_count = VTXT_MAX_CHAR_IN_BUFFER * 6

\* C3: right after a vtxt_setflags call whose flag word differs from the
\* current one in the VTXT_CREATE_INDEX_BUFFER bit, vertex_count and
\* index_count are both 0.
C3_ToggleClears ==
    (last.op = "setflags" /\ (last.config % 2) # (last.a % 2))
        => (vertex_count = 0 /\ index_count = 0)

\* indexing was switched off, with other flag bits set, on a store that held
\* vertices and indices
C3_Witness ==
    /\ last.op = "setflags"
    /\ last.config % 2 = 1
    /\ last.a % 2 = 0
    /\ last.a # 0
    /\ last.vc > 0
    /\ last.ic > 0
    /\ vertex_count = 0

\* C4: the store never mixes the two topologies: with indexing on,
\* vertex_count is a multiple of 4 and index_count = 6 * (vertex_count / 4);
\* with indexing off, vertex_count is a multiple of 6 and index_count = 0.
C4_OneTopology ==
    IF Indexed
    THEN vertex_count % 4 = 0 /\ index_count = 6 * (vertex_count \div 4)
    ELSE vertex_count % 6 = 0 /\ index_count = 0

\* an indexed glyph sits in a store whose array still holds the floats of
\* an earlier, longer non-indexed run
C4_Witness ==
    /\ Indexed
    /\ vertex_count = 4
    /\ \E k \in (vertex_count * 4) .. (VertexBufferLen - 1) :
          vertex_buffer[k] # RInt(0)

C6_CountsPerGlyph ==
    /\ ( /\ last.op = "append_glyph"
         /\ InWindow(last.glyph)
         /\ ~(VTXT_MAX_CHAR_IN_BUFFER * 6 < last.vc + 6) )
       => IF Indexed
          THEN vertex_count = last.vc + 4 /\ index_count = last.ic + 6
          ELSE vertex_count = last.vc + 6 /\ index_count = last.ic
    /\ ( /\ last.op = "append_line"
         /\ last.vc = 0
         /\ last.ic = 0
         /\ \A k \in 1 .. Len(last.text) : InWindow(last.text[k])
         /\ Len(last.text) <= VTXT_MAX_CHAR_IN_BUFFER )
       => IF Indexed
          THEN /\ vertex_count = 4 * Len(last.text)
               /\ index_count = 6 * Len(last.text)
          ELSE /\ vertex_count = 6 * Len(last.text)
               /\ index_count = 0

\* a line of two glyphs was appended to the empty indexed store
C6_Witness ==
    /\ last.op = "append_line"
    /\ last.text = <<ChA, ChB>>
    /\ last.vc = 0
    /\ Indexed
    /\ vertex_count = 8
    /\ index_count = 12

\* C7: for every snapshot vtxt_grab_buffer returns, vertices_array_count is
\* the number of floats held in the vertex array (4 per vertex), so
\* vertices_array_count / 4 = vertex_count.
C7_FourFloatsPerVertex ==
    last.op = "grab_buffer"
        => /\ retval.vertices_array_count = 4 * vertex_count
           /\ retval.vertices_array_count \div 4 = retval.vertex_count

----------------------------------------------------------------------------
(* Properties of vtxt_init_font (checked under SpecFont).                  *)

\* the glyph slots the packing loop has blitted
Packed ==
    IF builder.pc = "done" THEN GlyphSlots
    ELSE IF builder.pc = "pack" THEN {i \in GlyphSlots : i < builder.i}
    ELSE {}

\* C9: the allocated atlas height bounds what the row packer uses: every
\* pixel written while blitting a glyph lies inside the atlas, that is
\* atlas_x + glyph_width <= atlas.width and atlas_y + glyph_height <=
\* atlas.height for every glyph that has pixels.
C9_BlitInsideAtlas ==
    \A i \in Packed :
        LET bm == builder.temp_glyph_bitmaps[i]
        IN  (bm.width > 0 /\ bm.height > 0)
                => /\ builder.blit[i][1] + bm.width <= builder.atlas.width
                   /\ builder.blit[i][2] + bm.height <= builder.atlas.height

\* C10: after vtxt_init_font has built the font, every glyph of the window
\* has 0 <= min_u < max_u <= 1 and 0 <= min_v < max_v <= 1.
C10_TexCoordsInUnitSquare ==
    builder.pc = "done"
        => \A i \in GlyphSlots :
              LET g == font.glyphs[i]
              IN  /\ IsFinite(g.min_u) /\ IsFinite(g.max_u)
                  /\ IsFinite(g.min_v) /\ IsFinite(g.max_v)
                  /\ RLeq(RInt(0), g.min_u) /\ RLess(g.min_u, g.max_u)
                  /\ RLeq(g.max_u, RInt(1))
                  /\ RLeq(RInt(0), g.min_v) /\ RLess(g.min_v, g.max_v)
                  /\ RLeq(g.max_v, RInt(1))

\* the rectangle [x, x + width) x [y, y + height) glyph slot i was packed into
PackedRect(i) ==
    [x |-> builder.blit[i][1], y |-> builder.blit[i][2],
     width |-> builder.temp_glyph_bitmaps[i].width,
     height |-> builder.temp_glyph_bitmaps[i].height]

\* two rectangles have a pixel in common
RectsOverlap(r, q) ==
    /\ r.width > 0 /\ r.height > 0 /\ q.width > 0 /\ q.height > 0
    /\ r.x < q.x + q.width /\ q.x < r.x + r.width
    /\ r.y < q.y + q.height /\ q.y < r.y + r.height

\* C11: the rectangles the glyphs of the window are packed into never
\* overlap, and the glyphs are placed left to right in codepoint order: the
\* first at (0, 0), each next one at the previous x + width + pad_x in the
\* same row, or at x = 0 and y + tallest glyph height + pad_y when it would
\* cross the atlas width there.
C11_PackedRectsDisjoint ==
    /\ \A i \in Packed : \A j \in Packed \ {i} :
          ~RectsOverlap(PackedRect(i), PackedRect(j))
    /\ \A i \in Packed :
          LET pen == IF i = 0 THEN <<0, 0>>
                     ELSE <<PackedRect(i - 1).x + PackedRect(i - 1).width
                                + VTXT_ATLAS_PAD_X,
                            PackedRect(i - 1).y>>
          IN  builder.blit[i] =
                IF pen[1] + PackedRect(i).width > builder.atlas.width
                THEN <<0, pen[2] + builder.tallest_glyph_height
                                 + VTXT_ATLAS_PAD_Y>>
                ELSE pen

\* a font was built whose glyphs share a row and whose last glyph, shorter
\* than the tallest, opened a second row
C11_Witness ==
    /\ builder.pc = "done"
    /\ \E i \in GlyphSlots : PackedRect(i).x > 0 /\ PackedRect(i).width > 0
    /\ \E i \in GlyphSlots :
          /\ i > 0
          /\ PackedRect(i).y > 0
          /\ PackedRect(i).height > 0
          /\ PackedRect(i - 1).height > PackedRect(i).height

----------------------------------------------------------------------------
(* Properties of vtxt_get_text_bounding_box_info (checked under            *)
(* SpecMeasure).                                                           *)

\* C12: vtxt_get_text_bounding_box_info terminates for every text, also one
\* with characters outside the window, which are skipped and left out of
\* the sums: the loop consumes a character each time its body runs, so the
\* body is entered at most once per character of the text.
C12_MeasureTerminates ==
    measure.iterations <= Len(measure.text)

\* the text up to its first newline, and what follows that newline
RECURSIVE FirstLine(_)
FirstLine(text) ==
    IF text = <<>> \/ Head(text) = NEWLINE THEN <<>>
    ELSE <<Head(text)>> \o FirstLine(Tail(text))

\* the lines of a text: one more than it has newlines
RECURSIVE SplitLines(_)
SplitLines(text) ==
    LET line == FirstLine(text)
    IN  IF Len(line) = Len(text) THEN <<line>>
        ELSE <<line>> \o SplitLines(SubSeq(text, Len(line) + 2, Len(text)))

\* the extent of one line of glyphs of the window on its own: the scaled
\* advances of all glyphs but the last, and the last glyph's scaled
\* offset_x + width
RECURSIVE LineExtent(_, _)
LineExtent(line, scale) ==
    IF line = <<>> THEN RInt(0)
    ELSE LET glyph == font.glyphs[Head(line) - VTXT_ASCII_FROM]
         IN  IF Len(line) = 1
             THEN RMul(RAdd(glyph.offset_x, glyph.width), scale)
             ELSE RAdd(RMul(glyph.advance, scale),
                       LineExtent(Tail(line), scale))

\* the largest of the extents of the lines
RECURSIVE WidestLine(_, _)
WidestLine(lines, scale) ==
    IF lines = <<>> THEN RInt(0)
    ELSE LET w == LineExtent(Head(lines), scale)
             rest == WidestLine(Tail(lines), scale)
         IN  IF RLess(rest, w) THEN w ELSE rest

\* C13: the width vtxt_get_text_bounding_box_info returns for a text of
\* several lines is the largest of the extents of its lines, each line
\* measured on its own; the running sum of one line is not carried into
\* the next.
C13_WidthIsWidestLine ==
    measure.pc = "done"
        => measure.width_out =
              WidestLine(SplitLines(measure.text),
                         FDiv(measure.text_height_px, font.font_height_px))

\* C14: the height vtxt_get_text_bounding_box_info returns is the scaled
\* line height (ascender - descender + linegap + linegap offset) * scale,
\* counted once per line termination of the text, that is once per newline
\* and once for the end of the string, empty lines and a trailing newline
\* included.
C14_HeightCountsEveryLine ==
    measure.pc = "done"
        => measure.height_out =
              RMul(RInt(Len(SplitLines(measure.text))),
                   RMul(RAdd(RSub(font.ascender, font.descender),
                             RAdd(font.linegap, linegap_offset)),
                        FDiv(measure.text_height_px, font.font_height_px)))

----------------------------------------------------------------------------
(* Properties of the cursor and the text run composers (checked under      *)
(* Spec).                                                                  *)

\* the line step L of the font at the given size, truncated towards zero:
\* (ascender - descender + linegap + linegap offset) * h / font_height_px
TruncatedLineStep(text_height_px) ==
    RTrunc(RMul(RAdd(RSub(font.ascender, font.descender),
                     RAdd(font.linegap, linegap_offset)),
                FDiv(text_height_px, font.font_height_px)))

\* +1 when a new line moves the cursor towards larger y under the flag
\* word: VTXT_NEWLINE_ABOVE and VTXT_FLIP_Y both clear or both set
LineDirection(cfg) ==
    IF ((cfg \div VTXT_NEWLINE_ABOVE) % 2) = ((cfg \div VTXT_FLIP_Y) % 2)
    THEN 1 ELSE -1

\* C15: vtxt_new_line(x, font, h) sets the cursor x to x and moves the
\* cursor y by the truncated line step L: y grows by L when
\* VTXT_NEWLINE_ABOVE and VTXT_FLIP_Y are both clear or both set and
\* shrinks by L when exactly one is set; vertex_count and index_count are
\* left as they were.
C15_NewLineMovesCursor ==
    last.op = "new_line"
        => /\ cursor_x = last.a
           /\ cursor_y = last.cy
                            + LineDirection(last.config)
                                * TruncatedLineStep(last.height)
           /\ vertex_count = last.vc
           /\ index_count = last.ic

\* a new line was started from another x with both VTXT_NEWLINE_ABOVE and
\* VTXT_FLIP_Y set, on a store holding glyphs: y grew by a step that the
\* truncation shortened
C15_Witness ==
    /\ last.op = "new_line"
    /\ last.cx # last.a
    /\ (config \div VTXT_NEWLINE_ABOVE) % 2 = 1
    /\ (config \div VTXT_FLIP_Y) % 2 = 1
    /\ vertex_count > 0
    /\ cursor_y > last.cy
    /\ RLess(RInt(cursor_y - last.cy),
             RMul(RAdd(RSub(font.ascender, font.descender),
                       RAdd(font.linegap, linegap_offset)),
                  FDiv(last.height, font.font_height_px)))

\* C19: the pre-scan of the aligned composers copies at most
\* LINE_BUFFER_LEN characters of a line: for every text the write index
\* into the line buffer stays below LINE_BUFFER_LEN when a character is
\* stored, and nothing is written past the line buffer.
C19_LineBufferNotOverrun ==
    /\ scan.lb_index <= LINE_BUFFER_LEN
    /\ scan.oob = {}

\* the position in the text where the line holding position k starts
RECURSIVE LineStart(_, _)
LineStart(text, k) ==
    IF k = 1 \/ text[k - 1] = NEWLINE THEN k ELSE LineStart(text, k - 1)

\* the sum of the scaled advances of the characters of a line; a character
\* outside the window has no glyph, junk stands for what is taken as its
\* advance
RECURSIVE SumAdvances(_, _, _)
SumAdvances(line, text_height_px, junk) ==
    IF line = <<>> THEN RInt(0)
    ELSE RAdd(RMul(IF InWindow(Head(line))
                   THEN font.glyphs[Head(line) - VTXT_ASCII_FROM].advance
                   ELSE junk,
                   FDiv(text_height_px, font.font_height_px)),
              SumAdvances(Tail(line), text_height_px, junk))

\* the offset a composer gives the glyph at position k: none, or minus the
\* summed advances of the line of k ("right"), or minus half of them
\* ("centered")
PenOffset(text, k, text_height_px, mode, junk) ==
    LET from == LineStart(text, k)
        line == SubSeq(text, from, from + Len(FirstLine(SubSeq(text, from, Len(text)))) - 1)
        length == SumAdvances(line, text_height_px, junk)
    IN  IF mode = "left" THEN RInt(0)
        ELSE IF mode = "right" THEN RNeg(length)
        ELSE RNeg(RDiv(length, RInt(2)))

\* the layout of a text from character k on, with the pen at (x, y) and
\* lines starting at x0: for each glyph of the window, in text order, the
\* pen it is drawn at and its offset; a newline takes the pen to x0 and one
\* line step on; a glyph moves the pen by its truncated scaled advance; any
\* other character is passed over. Also where the pen ends.
RECURSIVE Layout(_, _, _, _, _, _, _, _, _)
Layout(text, k, x, y, x0, text_height_px, cfg, mode, junk) ==
    IF k > Len(text) THEN [pens |-> <<>>, x |-> x, y |-> y]
    ELSE IF text[k] = NEWLINE
         THEN Layout(text, k + 1, x0,
                     y + LineDirection(cfg) * TruncatedLineStep(text_height_px),
                     x0, text_height_px, cfg, mode, junk)
    ELSE IF ~InWindow(text[k])
         THEN Layout(text, k + 1, x, y, x0, text_height_px, cfg, mode, junk)
    ELSE LET advance ==
                 RTrunc(RMul(font.glyphs[text[k] - VTXT_ASCII_FROM].advance,
                             FDiv(text_height_px, font.font_height_px)))
             rest == Layout(text, k + 1, x + advance, y, x0, text_height_px,
                            cfg, mode, junk)
         IN  [rest EXCEPT
                !.pens = <<[ch |-> text[k], x |-> x, y |-> y,
                            offset |-> PenOffset(text, k, text_height_px,
                                                 mode, junk)]>>
                         \o @]

\* the number of vertices a glyph takes in the store
VerticesPerGlyph == IF Indexed THEN 4 ELSE 6

\* the n-th glyph (from 0) stored by the last call is the quad of the glyph
\* of pen drawn there: its first vertex is the quad's left bottom corner
\* with the glyph's texture corner, and its right top corner is the quad's
StoredQuadIs(n, pen) ==
    LET base == (last.vc + VerticesPerGlyph * n) * 4
        rt == IF Indexed THEN base + 8 ELSE base + 4
        q == QuadOf([cx |-> pen.x, cy |-> pen.y], Env, pen.ch, last.height,
                    pen.offset)
    IN  /\ vertex_buffer[base] = q.left
        /\ vertex_buffer[base + 1] = q.bot
        /\ vertex_buffer[base + 2] = q.min_u
        /\ vertex_buffer[base + 3] = q.min_v
        /\ vertex_buffer[rt] = q.right
        /\ vertex_buffer[rt + 1] = q.top

\* the last call stored the glyphs of the layout in text order, as many as
\* it stored; and when the store had room for all, it stored them all and
\* left the cursor where the layout ends
StoredAsLaidOut(layout) ==
    LET stored == (vertex_count - last.vc) \div VerticesPerGlyph
    IN  /\ vertex_count = last.vc + VerticesPerGlyph * stored
        /\ index_count = last.ic + (IF Indexed THEN 6 * stored ELSE 0)
        /\ stored <= Len(layout.pens)
        /\ \A n \in 0 .. (stored - 1) : StoredQuadIs(n, layout.pens[n + 1])
        /\ (last.vc + 6 * Len(layout.pens) <= VTXT_MAX_CHAR_IN_BUFFER * 6)
              => /\ stored = Len(layout.pens)
                 /\ cursor_x = layout.x
                 /\ cursor_y = layout.y

\* C16: in a vtxt_append_line call entered with the cursor at x0, every
\* newline that is processed takes the cursor x back to x0 and the cursor
\* y exactly one line step on, and appends no vertices; every other
\* character of the window is appended as one glyph, in text order.
C16_AppendLineLayout ==
    last.op = "append_line"
        => StoredAsLaidOut(Layout(last.text, 1, last.cx, last.cy, last.cx,
                                  last.height, config, "left", RInt(0)))

\* a text of two lines went into a store with room for it, from a cursor
\* that the first line moved: the second line's glyph is the last one
\* stored and the cursor is one line step on
C16_Witness ==
    /\ last.op = "append_line"
    /\ last.text = <<ChB, ChA, NEWLINE, ChA>>
    /\ vertex_count = last.vc + 3 * VerticesPerGlyph
    /\ cursor_y # last.cy
    /\ cursor_x > last.cx
    /\ vertex_buffer[(last.vc + 2 * VerticesPerGlyph) * 4]
          # vertex_buffer[(last.vc + VerticesPerGlyph) * 4]

\* C18: for a text of several lines, vtxt_append_line_centered and
\* vtxt_append_line_align_right measure and align each line on its own:
\* every glyph of a line is shifted by the same offset, minus half
\* (centered) or minus all (right) of that line's summed scaled advances;
\* every line starts from the cursor x the first line started from, and the
\* cursor moves one line step per newline. (For a character outside the
\* window the sum holds whatever the pre-scan read as its advance.)
C18_AlignedLinesOnTheirOwn ==
    /\ last.op = "append_line_centered"
         => \E junk \in JunkAdvances :
               StoredAsLaidOut(Layout(last.text, 1, last.cx, last.cy, last.cx,
                                      last.height, config, "centered", junk))
    /\ last.op = "append_line_align_right"
         => \E junk \in JunkAdvances :
               StoredAsLaidOut(Layout(last.text, 1, last.cx, last.cy, last.cx,
                                      last.height, config, "right", junk))

\* a text of two lines of different lengths was centered into a store with
\* room for it: its three glyphs are stored and the cursor is one line
\* step on
C18_Witness ==
    /\ last.op = "append_line_centered"
    /\ last.text = <<ChB, ChA, NEWLINE, ChA>>
    /\ vertex_count = last.vc + 3 * VerticesPerGlyph
    /\ cursor_y # last.cy
    /\ PenOffset(last.text, 1, last.height, "centered", RInt(0))
          # PenOffset(last.text, 4, last.height, "centered", RInt(0))

\* what counts as floating rounding, in pixels
RoundingTolerance == Rat(1, 1000)

\* C17: vtxt_append_line_centered of a single-line run of glyphs of the
\* window, with the cursor at x = c in screen coordinates, places the
\* midpoint of the run's horizontal extent, from the left edge of the first
\* quad to the right edge of the last quad, at x = c, up to rounding
\* tolerance.
C17_CenteredMidpoint ==
    ( /\ last.op = "append_line_centered"
      /\ Len(last.text) > 0
      /\ \A k \in 1 .. Len(last.text) : InWindow(last.text[k])
      /\ last.vc + 6 * Len(last.text) <= VTXT_MAX_CHAR_IN_BUFFER * 6
      /\ (config \div VTXT_USE_CLIPSPACE_COORDS) % 2 = 0 )
    => LET first == last.vc * 4
           final == (last.vc + VerticesPerGlyph * (Len(last.text) - 1)) * 4
           left == vertex_buffer[first]
           right == vertex_buffer[IF Indexed THEN final + 8 ELSE final + 4]
           midpoint == RDiv(RAdd(left, right), RInt(2))
           off == RSub(midpoint, RInt(last.cx))
       IN  /\ RLeq(off, RoundingTolerance)
           /\ RLeq(RNeg(RoundingTolerance), off)

----------------------------------------------------------------------------
(* The two topologies (checked under Spec).                                *)

\* vertex n of a vertex array: position and texture coordinate
VertexAt(vb, n) == <<vb[4 * n], vb[4 * n + 1], vb[4 * n + 2], vb[4 * n + 3]>>

\* the two triangles of the glyph whose 6 indices start at position ic
IndexedTriangles(vb, ib, ic) ==
    << <<VertexAt(vb, ib[ic]), VertexAt(vb, ib[ic + 1]),
         VertexAt(vb, ib[ic + 2])>>,
       <<VertexAt(vb, ib[ic + 3]), VertexAt(vb, ib[ic + 4]),
         VertexAt(vb, ib[ic + 5])>> >>

\* the two triangles of the glyph whose 6 vertices start at vertex vc
PlainTriangles(vb, vc) ==
    << <<VertexAt(vb, vc), VertexAt(vb, vc + 1), VertexAt(vb, vc + 2)>>,
       <<VertexAt(vb, vc + 3), VertexAt(vb, vc + 4), VertexAt(vb, vc + 5)>> >>

\* the same corners in the same cyclic order
SameTriangle(t, u) ==
    u \in {t, <<t[2], t[3], t[1]>>, <<t[3], t[1], t[2]>>}

\* what the last vtxt_append_glyph call would have produced on an empty
\* store from the same cursor, flags and backbuffer size with the indexing
\* bit the other way
OtherTopologyTriangles ==
    LET E == [Env EXCEPT !.config = IF Indexed
                                    THEN config - VTXT_CREATE_INDEX_BUFFER
                                    ELSE config + VTXT_CREATE_INDEX_BUFFER]
        S0 == [vb |-> [k \in 0 .. (VertexBufferLen - 1) |-> RInt(0)],
               vc |-> 0,
               ib |-> [k \in 0 .. (IndexBufferLen - 1) |-> 0],
               ic |-> 0, cx |-> last.cx, cy |-> last.cy, stray |-> {}]
        S1 == StoreQuad(S0, E, QuadOf(S0, E, last.glyph, last.height, RInt(0)))
    IN  IF Indexed THEN PlainTriangles(S1.vb, 0)
        ELSE IndexedTriangles(S1.vb, S1.ib, 0)

\* the two triangles the last vtxt_append_glyph call stored
StoredTriangles ==
    IF Indexed THEN IndexedTriangles(vertex_buffer, index_buffer, last.ic)
    ELSE PlainTriangles(vertex_buffer, last.vc)

\* the last call was a vtxt_append_glyph that stored a glyph, all of it
\* inside the arrays
GlyphWasStored ==
    /\ last.op = "append_glyph"
    /\ InWindow(last.glyph)
    /\ last.vc + 6 <= VTXT_MAX_CHAR_IN_BUFFER * 6
    /\ Indexed => last.ic + 6 <= IndexBufferLen

\* C20: for the same glyph, cursor, flags other than the indexing bit and
\* backbuffer size, the indexed output (4 vertices read through the 6
\* indices) and the non-indexed output (6 vertices) are the same two
\* triangles: the same corner positions and texture coordinates per
\* triangle, in the same winding.
C20_SameTrianglesBothTopologies ==
    GlyphWasStored
        => /\ SameTriangle(StoredTriangles[1], OtherTopologyTriangles[1])
           /\ SameTriangle(StoredTriangles[2], OtherTopologyTriangles[2])

\* an indexed glyph was stored behind another, flipped: its triangles have
\* area, differ from each other, and the second one starts at another
\* corner than in the non-indexed output
C20_Witness ==
    /\ GlyphWasStored
    /\ Indexed
    /\ last.vc > 0
    /\ (config \div VTXT_FLIP_Y) % 2 = 1
    /\ StoredTriangles[1] # StoredTriangles[2]
    /\ StoredTriangles[2][1] # StoredTriangles[2][2]
    /\ StoredTriangles[2][2] # StoredTriangles[2][3]
    /\ StoredTriangles[2][1] # StoredTriangles[2][3]
    /\ StoredTriangles[2] # OtherTopologyTriangles[2]

----------------------------------------------------------------------------
(* The quad assembler (checked under Spec).                                *)

\* the quad of the glyph of the last vtxt_append_glyph call, from the cursor
\* the call started at
LastQuad ==
    QuadOf([cx |-> last.cx, cy |-> last.cy], Env, last.glyph, last.height,
           RInt(0))

\* C21: in indexed mode a glyph appended when vertex_count = b writes its
\* four vertices in the order bottom-left, top-left, top-right,
\* bottom-right with the texture coordinates (min_u, min_v), (min_u, max_v),
\* (max_u, max_v), (max_u, min_v) and the six indices b, b + 2, b + 1, b,
\* b + 3, b + 2; so every index held in positions [0, index_count) of the
\* index array is smaller than vertex_count.
C21_IndexedQuad ==
    /\ (GlyphWasStored /\ Indexed)
         => LET b == last.vc
                q == LastQuad
            IN  /\ VertexAt(vertex_buffer, b)
                     = <<q.left, q.bot, q.min_u, q.min_v>>
                /\ VertexAt(vertex_buffer, b + 1)
                     = <<q.left, q.top, q.min_u, q.max_v>>
                /\ VertexAt(vertex_buffer, b + 2)
                     = <<q.right, q.top, q.max_u, q.max_v>>
                /\ VertexAt(vertex_buffer, b + 3)
                     = <<q.right, q.bot, q.max_u, q.min_v>>
                /\ [k \in 0 .. 5 |-> index_buffer[last.ic + k]]
                     = [k \in 0 .. 5 |->
                          CASE k \in {0, 3} -> b
                            [] k \in {1, 5} -> b + 2
                            [] k = 2 -> b + 1
                            [] k = 4 -> b + 3]
    /\ \A k \in 0 .. (IndexBufferLen - 1) :
          k < index_count => index_buffer[k] < vertex_count

\* a second indexed glyph was stored: its indices start at 4
C21_Witness ==
    /\ GlyphWasStored
    /\ Indexed
    /\ last.vc = 4
    /\ index_count = 12
    /\ index_buffer[6] = 4
    /\ index_buffer[10] = 7
    /\ LastQuad.left # LastQuad.right
    /\ LastQuad.top # LastQuad.bot

\* glyph metric m of character c scaled to the size of the last call
ScaledMetric(c, m) ==
    RMul(font.glyphs[c - VTXT_ASCII_FROM][m],
         FDiv(last.height, font.font_height_px))

\* C22: a glyph that is appended (screen coordinates, no offset from the
\* cursor) is placed at left = cursor x + scaled offset_x and right = left +
\* scaled width; afterwards cursor x has advanced by the glyph's advance
\* scaled by text_height_px / font_height_px and cursor y is unchanged.
C22_PlacementAndAdvance ==
    ( /\ GlyphWasStored
      /\ (config \div VTXT_USE_CLIPSPACE_COORDS) % 2 = 0 )
    => LET left == vertex_buffer[last.vc * 4]
           right == vertex_buffer[(last.vc + (IF Indexed THEN 2 ELSE 1)) * 4]
       IN  /\ left = RAdd(RInt(last.cx), ScaledMetric(last.glyph, "offset_x"))
           /\ right = RAdd(left, ScaledMetric(last.glyph, "width"))
           /\ RInt(cursor_x)
                = RAdd(RInt(last.cx), ScaledMetric(last.glyph, "advance"))
           /\ cursor_y = last.cy

\* the screen-space corner (left, bot) of the glyph of the last
\* vtxt_append_glyph call
ScreenLeft == RAdd(RInt(last.cx), ScaledMetric(last.glyph, "offset_x"))
ScreenBot ==
    IF (config \div VTXT_FLIP_Y) % 2 = 1
    THEN RSub(RSub(RInt(last.cy), ScaledMetric(last.glyph, "offset_y")),
              ScaledMetric(last.glyph, "height"))
    ELSE RAdd(RAdd(RInt(last.cy), ScaledMetric(last.glyph, "offset_y")),
              ScaledMetric(last.glyph, "height"))

\* (2x / W - 1, 1 - 2y / H)
ToClipSpace(x, y, W, H) ==
    <<RSub(RDiv(RMul(RInt(2), x), RInt(W)), RInt(1)),
      RSub(RInt(1), RDiv(RMul(RInt(2), y), RInt(H)))>>

\* C23: with VTXT_USE_CLIPSPACE_COORDS set and backbuffer size (W, H) a
\* screen-space corner (x, y) is emitted as (2x/W - 1, 1 - 2y/H), so (0, 0)
\* goes to (-1, 1) and (W, H) to (1, -1); with the flag clear the corner is
\* emitted as it is, whatever the backbuffer size.
C23_ClipSpaceCorners ==
    /\ GlyphWasStored
         => <<vertex_buffer[last.vc * 4], vertex_buffer[last.vc * 4 + 1]>>
              = IF (config \div VTXT_USE_CLIPSPACE_COORDS) % 2 = 1
                THEN ToClipSpace(ScreenLeft, ScreenBot, screen_w, screen_h)
                ELSE <<ScreenLeft, ScreenBot>>
    /\ <<ClipSpaceX(RInt(0), screen_w), ClipSpaceY(RInt(0), screen_h)>>
         = <<RInt(-1), RInt(1)>>
    /\ <<ClipSpaceX(RInt(screen_w), screen_w),
          ClipSpaceY(RInt(screen_h), screen_h)>>
         = <<RInt(1), RInt(-1)>>

\* a glyph was stored in clip space after the backbuffer size was set: its
\* corner lies inside the clip square and is not the screen-space corner
C23_Witness ==
    /\ GlyphWasStored
    /\ (config \div VTXT_USE_CLIPSPACE_COORDS) % 2 = 1
    /\ screen_w = 400
    /\ vertex_buffer[last.vc * 4] # ScreenLeft
    /\ RLeq(RInt(-1), vertex_buffer[last.vc * 4])
    /\ RLeq(vertex_buffer[last.vc * 4], RInt(1))
    /\ RLeq(RInt(-1), vertex_buffer[last.vc * 4 + 1])
    /\ RLeq(vertex_buffer[last.vc * 4 + 1], RInt(1))

\* C24: vtxt_init_font with a height above VTXT_MAX_FONT_RESOLUTION returns
\* without writing any field of the font handle and without allocating an
\* atlas; a height up to and including the maximum is accepted and the font
\* is built at that height.
C24_OversizeFontIsNoOp ==
    /\ builder.pc = "returned"
         => /\ provider.font_height_in_pixels > VTXT_MAX_FONT_RESOLUTION
            /\ font = ZeroFont
            /\ builder.atlas = BuilderStart.atlas
            /\ builder.slot_oob = {}
    /\ (provider.font_height_in_pixels <= VTXT_MAX_FONT_RESOLUTION
          /\ builder.pc # "start")
         => /\ builder.pc # "returned"
            /\ font.font_height_px = provider.font_height_in_pixels
    /\ provider.font_height_in_pixels > VTXT_MAX_FONT_RESOLUTION
         => builder.pc \in {"start", "returned"}
    /\ builder.pc = "done"
         => /\ font.font_atlas = builder.atlas
            /\ font.font_atlas.width > 0

\* a font of 101 pixels was refused
C24_Witness ==
    /\ builder.pc = "returned"
    /\ provider.font_height_in_pixels = VTXT_MAX_FONT_RESOLUTION + 1
    /\ font = ZeroFont

\* lines 529-535: the byte at position index of the bitmap the provider
\* renders for codepoint c (row-major, top row first)
StbBitmapTemp(p, c, index) == 1 + ((c + 3 * index) % 255)

\* lines 545-553: the byte at (row, col) of temp_glyph_bitmaps[i].pixels
TempGlyphPixel(p, b, i, row, col) ==
    LET bm == b.temp_glyph_bitmaps[i]
    IN  StbBitmapTemp(p, VTXT_ASCII_FROM + i,
                      (bm.height - row - 1) * bm.width + col)

\* lines 584-591: the last row glyph_y of glyph i whose copy writes the
\* atlas byte at position index, or -1 when the copy of glyph i does not
\* write it
BlitRow(b, i, index) ==
    LET bm == b.temp_glyph_bitmaps[i]
        r == index - (b.blit[i][2] * b.atlas.width + b.blit[i][1])
        glyph_y == IF r \div b.atlas.width < bm.height - 1
                   THEN r \div b.atlas.width ELSE bm.height - 1
    IN  IF /\ r >= 0 /\ bm.height > 0
           /\ r - glyph_y * b.atlas.width < bm.width
        THEN glyph_y ELSE -1

\* lines 569 and 577-591: the byte at position index of atlas.pixels once
\* the glyphs of the set packed have been copied: zero from calloc, or what
\* the last copy that reached it wrote
AtlasPixel(p, b, packed, index) ==
    LET writers == {i \in packed : BlitRow(b, i, index) >= 0}
    IN  IF writers = {} THEN 0
        ELSE LET i == CHOOSE w \in writers : \A v \in writers : v <= w
                 glyph_y == BlitRow(b, i, index)
                 glyph_x == index - ((b.blit[i][2] + glyph_y) * b.atlas.width
                                        + b.blit[i][1])
             IN  TempGlyphPixel(p, b, i, glyph_y, glyph_x)

\* (x, y) is a pixel of the atlas
InAtlas(b, x, y) ==
    /\ 0 <= x /\ x < b.atlas.width
    /\ 0 <= y /\ y < b.atlas.height

\* (x, y) lies in the rectangle of a packed glyph
InGlyphRect(x, y) ==
    \E i \in Packed :
        /\ PackedRect(i).x <= x /\ x < PackedRect(i).x + PackedRect(i).width
        /\ PackedRect(i).y <= y /\ y < PackedRect(i).y + PackedRect(i).height

\* C25: every glyph bitmap is stored vertically flipped in the atlas: the
\* atlas pixel (atlas_x + col, atlas_y + row) holds the provider's pixel at
\* row h - 1 - row and column col, and the atlas pixels outside every glyph
\* rectangle are 0.
C25_AtlasHoldsFlippedGlyphs ==
    builder.pc = "done"
        => /\ \A i \in GlyphSlots :
                LET r == PackedRect(i)
                IN  \A row \in 0 .. (r.height - 1), col \in 0 .. (r.width - 1) :
                        /\ InAtlas(builder, r.x + col, r.y + row)
                        /\ AtlasPixel(provider, builder, GlyphSlots,
                                      (r.y + row) * builder.atlas.width
                                          + r.x + col)
                             = StbBitmapTemp(provider, VTXT_ASCII_FROM + i,
                                             (r.height - 1 - row) * r.width + col)
           /\ \A x \in 0 .. (builder.atlas.width - 1),
                 y \in 0 .. (builder.atlas.height - 1) :
                    ~InGlyphRect(x, y)
                        => AtlasPixel(provider, builder, GlyphSlots,
                                      y * builder.atlas.width + x) = 0

\* C26: the store shrinks only by an explicit clear: across any call other
\* than vtxt_clear_buffer and a vtxt_setflags that toggles
\* VTXT_CREATE_INDEX_BUFFER, vertex_count and index_count never decrease;
\* vtxt_clear_buffer sets both to 0 and leaves the cursor, the flags, the
\* backbuffer size and the linegap offset as they were.
C26_ShrinksOnlyByClear ==
    [][ (calls' = calls + 1)
        => /\ ~ \/ last'.op = "clear_buffer"
                 \/ /\ last'.op = "setflags"
                    /\ (config \div VTXT_CREATE_INDEX_BUFFER) % 2
                         # (last'.a \div VTXT_CREATE_INDEX_BUFFER) % 2
                => /\ vertex_count' >= vertex_count
                   /\ index_count' >= index_count
           /\ last'.op = "clear_buffer"
                => /\ vertex_count' = 0
                   /\ index_count' = 0
                   /\ UNCHANGED <<cursor_x, cursor_y, config, screen_w,
                                  screen_h, linegap_offset>> ]_vars

\* a store holding vertices and indices was cleared with the cursor away
\* from the origin
C26_Witness ==
    /\ last.op = "clear_buffer"
    /\ last.vc > 0
    /\ last.ic > 0
    /\ vertex_count = 0
    /\ index_count = 0
    /\ cursor_x = last.cx
    /\ cursor_x # 0

\* the number of characters of the window among the first k - 1 of text
GlyphsBefore(text, k) ==
    Cardinality({j \in 1 .. (k - 1) : InWindow(text[j])})

\* the first position of text holding a character other than a newline that
\* finds no room for six more vertices, the glyphs before it having been
\* stored by the last call; Len(text) + 1 when there is none
FirstMisfit(text) ==
    LET misfits ==
            {k \in 1 .. Len(text) :
                /\ text[k] # NEWLINE
                /\ VTXT_MAX_CHAR_IN_BUFFER * 6
                      < last.vc + VerticesPerGlyph * GlyphsBefore(text, k) + 6}
    IN  IF misfits = {} THEN Len(text) + 1
        ELSE CHOOSE k \in misfits : \A j \in misfits : k <= j

C28_PrescanInsideGlyphTable ==
    /\ last.reads \subseteq GlyphSlots
    /\ last.op = "append_line_centered"
         => StoredAsLaidOut(Layout(last.text, 1, last.cx, last.cy, last.cx,
                                   last.height, config, "centered", RInt(0)))
    /\ last.op = "append_line_align_right"
         => StoredAsLaidOut(Layout(last.text, 1, last.cx, last.cy, last.cx,
                                   last.height, config, "right", RInt(0)))

\* C29: the view vtxt_grab_buffer returns never extends past the storage:
\* vertices_array_count <= VTXT_MAX_CHAR_IN_BUFFER * 6 * 4 and
\* indices_array_count <= VTXT_MAX_CHAR_IN_BUFFER * 6 for every snapshot,
\* in both modes.
C29_GrabViewWithinStorage ==
    last.op = "grab_buffer"
        => /\ retval.vertices_array_count <= VertexBufferLen
           /\ retval.indices_array_count <= IndexBufferLen

\* C30: the glyph-loading loop, whose counter is an 8-bit signed char, ends
\* after exactly VTXT_ASCII_TO - VTXT_ASCII_FROM + 1 iterations for every
\* window with VTXT_ASCII_FROM <= VTXT_ASCII_TO <= 127, also for
\* VTXT_ASCII_TO = 127 where the increment wraps, and never writes a glyph
\* slot outside [0, VTXT_GLYPH_COUNT - 1].
C30_LoadLoopEnds ==
    /\ builder.iterations <= builder.ascii_to - builder.ascii_from + 1
    /\ builder.slot_oob = {}
    /\ builder.pc = "pack"
         => builder.iterations = builder.ascii_to - builder.ascii_from + 1

====
